---- MODULE Spec2Model ----
(***************************************************************************)
(* Model of the oxc node index (crates/oxc_semantic/src/node.rs) and of    *)
(* the name-preservation analysis built on it                              *)
(* (crates/oxc_mangler/src/keep_names.rs).                                 *)
(*                                                                         *)
(* Spec      the node store under arbitrary add_node / add_program_node    *)
(*           calls.                                                        *)
(* SpecKeep  collect_name_symbols applied to a bounded family of programs  *)
(*           lowered into a node store and a symbol table.                 *)
(***************************************************************************)
EXTENDS Integers, Sequences, FiniteSets, TLC

VARIABLES
    nodes,       \* AstNodes.nodes      : IndexVec<AstNodeId, AstNode>
    parent_ids,  \* AstNodes.parent_ids : IndexVec<AstNodeId, Option<AstNodeId>>
    root,        \* AstNodes.root       : Option<AstNodeId>
    contract,    \* history: every call so far obeyed the caller contract
    last_id,     \* the AstNodeId returned by the latest add call
    calls,       \* history: the add calls so far, each with the id it returned
    flag_updates, \* history: the number of flag updates so far
    program,     \* the parsed program the store and the table were built from
    scoping,     \* the symbol table handed to collect_name_symbols
    out,         \* what collect_name_symbols did: pending, returned a set, panicked
    runs         \* history: the (build, outcome) pairs of the runs so far

vars ==
    <<nodes, parent_ids, root, contract, last_id, calls, flag_updates,
      program, scoping, out, runs>>

keepVars == <<program, scoping, out, runs>>

(***************************************************************************)
(* Option<T>                                                               *)
(***************************************************************************)
None == [some |-> FALSE]

Some(v) == [some |-> TRUE, val |-> v]

(***************************************************************************)
(* Bounds of the node-store specification.                                 *)
(***************************************************************************)
\* number of nodes a store of Spec grows to
MaxNodes == 3

\* the AstNodeId values a caller may pass as parent_node_id: every id the
\* store can assign, which includes the id about to be assigned and later ones
NodeIds == 0 .. (MaxNodes - 1)

\* number of flag updates made on a store of Spec
MaxFlagUpdates == 1

\* (kind, scope_id, cfg_id, flags) tuples passed to the add calls of Spec
NodeInputs ==
    { [kind |-> [type |-> "Program"], scope_id |-> 0, cfg_id |-> 0, flags |-> 0],
      [kind |-> [type |-> "Other"],   scope_id |-> 1, cfg_id |-> 1, flags |-> 1] }

(***************************************************************************)
(* AstNode and AstNodes                                                    *)
(***************************************************************************)
\* mutant of AstNode_new: the id field is not the id passed in
AstNode_new_IdZero(kind, scope_id, cfg_id, flags, id) ==
    [id |-> 0, kind |-> kind, scope_id |-> scope_id, cfg_id |-> cfg_id, flags |-> flags]

\* AstNode::new
AstNode_new(kind, scope_id, cfg_id, flags, id) ==
    [id |-> id, kind |-> kind, scope_id |-> scope_id, cfg_id |-> cfg_id, flags |-> flags]

\* A store value: the three fields of AstNodes.  IndexVec ids are 0-based,
\* sequences are 1-based: id i lives at index i + 1.
Store(ns, ps, r) == [nodes |-> ns, parent_ids |-> ps, root |-> r]

EmptyStore == Store(<<>>, <<>>, None)

\* mutant of PushId: the index of the element after the pushed one
PushId_Next(vec) == Len(vec) + 1

\* IndexVec::push returns the index of the pushed element
PushId(vec) == Len(vec)

\* mutant of AddNode: the new node is recorded as its own parent
AddNode_SelfParent(st, kind, scope_id, parent_node_id, cfg_id, flags) ==
    LET ast_node_id == PushId(st.parent_ids)
        ps == Append(st.parent_ids, Some(ast_node_id))
        node == AstNode_new(kind, scope_id, cfg_id, flags, ast_node_id)
    IN  <<Store(Append(st.nodes, node), ps, st.root), ast_node_id>>

\* AstNodes::add_node: returns <<store', id>>
AddNode(st, kind, scope_id, parent_node_id, cfg_id, flags) ==
    LET ast_node_id == PushId(st.parent_ids)
        ps == Append(st.parent_ids, Some(parent_node_id))
        node == AstNode_new(kind, scope_id, cfg_id, flags, ast_node_id)
    IN  <<Store(Append(st.nodes, node), ps, st.root), ast_node_id>>

\* mutant of AddProgramNode: the root is not recorded
AddProgramNode_RootNotSet(st, kind, scope_id, cfg_id, flags) ==
    LET ast_node_id == PushId(st.parent_ids)
        ps == Append(st.parent_ids, None)
        node == AstNode_new(kind, scope_id, cfg_id, flags, ast_node_id)
    IN  <<Store(Append(st.nodes, node), ps, st.root), ast_node_id>>

\* AstNodes::add_program_node: returns <<store', id>>
AddProgramNode(st, kind, scope_id, cfg_id, flags) ==
    LET ast_node_id == PushId(st.parent_ids)
        ps == Append(st.parent_ids, None)
        node == AstNode_new(kind, scope_id, cfg_id, flags, ast_node_id)
    IN  <<Store(Append(st.nodes, node), ps, Some(ast_node_id)), ast_node_id>>

\* NodeFlags values written through flags_mut
FlagValues == {0, 1}

\* mutant of FlagsMut: the flags of every stored node are overwritten
FlagsMut_EveryNode(st, ast_node_id, flags) ==
    Store([i \in 1 .. Len(st.nodes) |-> [st.nodes[i] EXCEPT !.flags = flags]],
          st.parent_ids, st.root)

\* *AstNodes::get_node_mut(ast_node_id).flags_mut() = flags: returns store'
FlagsMut(st, ast_node_id, flags) ==
    Store([st.nodes EXCEPT ![ast_node_id + 1].flags = flags], st.parent_ids, st.root)

\* AstNodes::len
StoreLen(st) == Len(st.nodes)

\* AstNodes::get_node
GetNode(st, id) == st.nodes[id + 1]

\* AstNodes::kind
KindOf(st, id) == st.nodes[id + 1].kind

\* AstNodes::parent_id
ParentId(st, id) == st.parent_ids[id + 1]

\* AstNodes::parent_node (None, or Some(node))
ParentNode(st, id) ==
    IF ParentId(st, id).some THEN Some(GetNode(st, ParentId(st, id).val)) ELSE None

\* AstNodes::root
Root(st) == st.root

\* std::iter::successors(Some(ast_node_id), |id| parent_ids[*id]) unrolled for
\* at most `fuel` further steps.  The result is a record: `ids` is the
\* sequence produced so far, `end` tells how the iteration went on:
\*   "done"    the closure returned None: the iterator is exhausted;
\*   "oob"     parent_ids[id] indexes past the vector: the index panics;
\*   "more"    the fuel ran out with the iterator still producing.
RECURSIVE Successors(_, _, _, _)
Successors(st, id, acc, fuel) ==
    IF id >= Len(st.parent_ids) THEN [ids |-> Append(acc, id), end |-> "oob"]
    ELSE IF ~ParentId(st, id).some THEN [ids |-> Append(acc, id), end |-> "done"]
    ELSE IF fuel = 0 THEN [ids |-> Append(acc, id), end |-> "more"]
    ELSE Successors(st, ParentId(st, id).val, Append(acc, id), fuel - 1)

\* AstNodes::ancestors(ast_node_id): the ids the iterator yields.  A chain of
\* parent links that has not ended after len() steps has revisited an id and
\* never ends.
Ancestors(st, ast_node_id) == Successors(st, ast_node_id, <<>>, StoreLen(st))

\* AstNodes::iter_parents / AstNodeParentIter::next: `curr` starts as the node
\* itself; each next() yields curr and moves curr to its parent node.
RECURSIVE ParentIter(_, _, _, _)
ParentIter(st, curr, acc, fuel) ==
    IF ~curr.some THEN [ids |-> acc, end |-> "done"]
    ELSE IF fuel = 0 THEN [ids |-> acc, end |-> "more"]
    ELSE IF ParentId(st, curr.val.id).some
              /\ ParentId(st, curr.val.id).val >= StoreLen(st)
         THEN [ids |-> Append(acc, curr.val.id), end |-> "oob"]
    ELSE ParentIter(st, ParentNode(st, curr.val.id), Append(acc, curr.val.id), fuel - 1)

IterParents(st, node_id) ==
    ParentIter(st, Some(GetNode(st, node_id)), <<>>, StoreLen(st) + 1)

(***************************************************************************)
(* The syntax tree payloads that keep_names.rs reads through AstKind.      *)
(***************************************************************************)
\* SymbolId values of the symbol table
SymbolIds == {0, 1}

\* Expression values.  A function or class expression carries its own
\* identifier, if it has one.
ArrowFunctionExpression == [type |-> "ArrowFunctionExpression"]

FunctionExpression(id) == [type |-> "FunctionExpression", id |-> id]

ClassExpression(id) == [type |-> "ClassExpression", id |-> id]

NumericLiteral == [type |-> "NumericLiteral"]

Exprs ==
    { ArrowFunctionExpression,
      FunctionExpression(None), FunctionExpression(Some("named")),
      ClassExpression(None), ClassExpression(Some("Named")),
      NumericLiteral }

\* Expression::is_anonymous_function_definition (oxc_ast), as spec.md 4.2
\* gives it: "true only for function expressions without an own identifier,
\* arrow functions, and class expressions without an own identifier"
is_anonymous_function_definition(expr) ==
    CASE expr.type = "ArrowFunctionExpression" -> TRUE
      [] expr.type = "FunctionExpression" -> ~expr.id.some
      [] expr.type = "ClassExpression" -> ~expr.id.some
      [] OTHER -> FALSE

\* NameSymbolCollector::is_expression_whose_name_needs_to_be_kept
is_expression_whose_name_needs_to_be_kept(expr) ==
    is_anonymous_function_definition(expr)

\* BindingPatternKind: the four variants the match of
\* find_assign_binding_pattern_kind_of_specific_symbol names
BindingIdentifier(s) == [type |-> "BindingIdentifier", symbol_id |-> s]

\* properties: a sequence of BindingProperty, each with a `value` pattern
ObjectPattern(properties) == [type |-> "ObjectPattern", properties |-> properties]

BindingProperty(value) == [value |-> value]

\* elements: a sequence of Option<BindingPattern>; None is an elision hole
ArrayPattern(elements) == [type |-> "ArrayPattern", elements |-> elements]

AssignmentPattern(left, right) ==
    [type |-> "AssignmentPattern", left |-> left, right |-> right]

\* mutant of is_binding_id_of_specific_symbol: any identifier matches
is_binding_id_of_specific_symbol_AnyId(pattern_kind, symbol_id) ==
    pattern_kind.type = "BindingIdentifier"

\* NameSymbolCollector::is_binding_id_of_specific_symbol
is_binding_id_of_specific_symbol(pattern_kind, symbol_id) ==
    IF pattern_kind.type = "BindingIdentifier"
    THEN pattern_kind.symbol_id = symbol_id
    ELSE FALSE

\* NameSymbolCollector::find_assign_binding_pattern_kind_of_specific_symbol
\* returns Option<AssignmentPattern>.  FindInProperties and FindInElements are
\* its two `for` loops, from index i on: the first Some(value) is returned.
RECURSIVE find_assign_binding_pattern_kind_of_specific_symbol(_, _)
RECURSIVE FindInProperties(_, _, _)
RECURSIVE FindInElements(_, _, _)
\* pattern p binds symbol_id at some position
RECURSIVE PatternBinds(_, _)
PatternBinds(p, symbol_id) ==
    CASE p.type = "BindingIdentifier" -> p.symbol_id = symbol_id
      [] p.type = "ObjectPattern" ->
            \E i \in 1 .. Len(p.properties) : PatternBinds(p.properties[i].value, symbol_id)
      [] p.type = "ArrayPattern" ->
            \E i \in 1 .. Len(p.elements) :
                p.elements[i].some /\ PatternBinds(p.elements[i].val, symbol_id)
      [] p.type = "AssignmentPattern" -> PatternBinds(p.left, symbol_id)

\* mutant of find_assign_binding_pattern_kind_of_specific_symbol: a default
\* is returned for every identifier inside its left side
find_assign_binding_pattern_kind_of_specific_symbol_OuterDefault(kind, symbol_id) ==
    CASE kind.type = "BindingIdentifier" -> None
      [] kind.type = "ObjectPattern" -> FindInProperties(kind.properties, 1, symbol_id)
      [] kind.type = "ArrayPattern" -> FindInElements(kind.elements, 1, symbol_id)
      [] kind.type = "AssignmentPattern" ->
            IF PatternBinds(kind.left, symbol_id) THEN Some(kind) ELSE None

FindInProperties(properties, i, symbol_id) ==
    IF i > Len(properties) THEN None
    ELSE LET value == find_assign_binding_pattern_kind_of_specific_symbol(
                          properties[i].value, symbol_id)
         IN  IF value.some THEN value
             ELSE FindInProperties(properties, i + 1, symbol_id)

FindInElements(elements, i, symbol_id) ==
    IF i > Len(elements) THEN None
    ELSE IF ~elements[i].some THEN FindInElements(elements, i + 1, symbol_id)
    ELSE LET value == find_assign_binding_pattern_kind_of_specific_symbol(
                          elements[i].val, symbol_id)
         IN  IF value.some THEN value
             ELSE FindInElements(elements, i + 1, symbol_id)

find_assign_binding_pattern_kind_of_specific_symbol(kind, symbol_id) ==
    CASE kind.type = "BindingIdentifier" -> None
      [] kind.type = "ObjectPattern" -> FindInProperties(kind.properties, 1, symbol_id)
      [] kind.type = "ArrayPattern" -> FindInElements(kind.elements, 1, symbol_id)
      [] kind.type = "AssignmentPattern" ->
            IF is_binding_id_of_specific_symbol(kind.left, symbol_id)
            THEN Some(kind)
            ELSE find_assign_binding_pattern_kind_of_specific_symbol(kind.left, symbol_id)

\* the declarator arm of is_name_set_declare_node
DeclaratorArm(kind, symbol_id) ==
    IF kind.id.type = "BindingIdentifier" /\ kind.id.symbol_id = symbol_id
    THEN kind.init.some /\ is_expression_whose_name_needs_to_be_kept(kind.init.val)
    ELSE LET assign_pattern ==
                 find_assign_binding_pattern_kind_of_specific_symbol(kind.id, symbol_id)
         IN  IF assign_pattern.some
             THEN is_expression_whose_name_needs_to_be_kept(assign_pattern.val.right)
             ELSE FALSE

\* mutant of is_name_set_declare_node: a function or class with any
\* identifier matches
is_name_set_declare_node_AnyId(kind, symbol_id) ==
    CASE kind.type = "Function" -> kind.id.some
      [] kind.type = "Class" -> kind.id.some
      [] kind.type = "VariableDeclarator" -> DeclaratorArm(kind, symbol_id)
      [] OTHER -> FALSE

\* mutant of is_name_set_declare_node: any initializer of `var s = init`
\* matches
is_name_set_declare_node_AnyInit(kind, symbol_id) ==
    CASE kind.type = "Function" ->
            kind.id.some /\ kind.id.val.symbol_id = symbol_id
      [] kind.type = "Class" ->
            kind.id.some /\ kind.id.val.symbol_id = symbol_id
      [] kind.type = "VariableDeclarator" ->
            IF kind.id.type = "BindingIdentifier" /\ kind.id.symbol_id = symbol_id
            THEN kind.init.some
            ELSE DeclaratorArm(kind, symbol_id)
      [] OTHER -> FALSE

\* mutant of is_name_set_declare_node: no arm for variable declarators
is_name_set_declare_node_NoDeclarator(kind, symbol_id) ==
    CASE kind.type = "Function" ->
            kind.id.some /\ kind.id.val.symbol_id = symbol_id
      [] kind.type = "Class" ->
            kind.id.some /\ kind.id.val.symbol_id = symbol_id
      [] OTHER -> FALSE

\* NameSymbolCollector::is_name_set_declare_node, on the kind of the node
is_name_set_declare_node(kind, symbol_id) ==
    CASE kind.type = "Function" ->
            kind.id.some /\ kind.id.val.symbol_id = symbol_id
      [] kind.type = "Class" ->
            kind.id.some /\ kind.id.val.symbol_id = symbol_id
      [] kind.type = "VariableDeclarator" -> DeclaratorArm(kind, symbol_id)
      [] OTHER -> FALSE

\* AssignmentTarget values
AssignmentTargetIdentifier(reference_id) ==
    [type |-> "AssignmentTargetIdentifier", reference_id |-> reference_id]

\* NameSymbolCollector::is_assignment_target_id_of_specific_reference
is_assignment_target_id_of_specific_reference(target_kind, reference_id) ==
    IF target_kind.type = "AssignmentTargetIdentifier"
    THEN target_kind.reference_id = reference_id
    ELSE FALSE

\* AstNodes::ancestor_kinds(id): the kinds of the ids that ancestors(id)
\* yields (node.rs holds ancestors; keep_names.rs skips the first kind, the
\* node's own, to reach the grandparent of the reference).
AncestorKinds(st, id) ==
    LET ids == Ancestors(st, id).ids
    IN  [i \in 1 .. Len(ids) |-> KindOf(st, ids[i])]

\* .skip(1).take(2).collect_tuple(): Some(<<a, b>>) when exactly two items
\* are left, None otherwise
SkipTakeTuple(kinds) ==
    LET left == SubSeq(kinds, 2, IF Len(kinds) < 3 THEN Len(kinds) ELSE 3)
    IN  IF Len(left) = 2 THEN Some(left) ELSE None

\* The outcome of a test that may trip a debug assertion.
Returns(b) == [panic |-> FALSE, value |-> b]

Panics == [panic |-> TRUE, value |-> FALSE]

\* mutant of AnyProperty: the binding is not compared with the reference
RECURSIVE AnyProperty_AnyBinding(_, _, _)
AnyProperty_AnyBinding(properties, i, reference_id) ==
    IF i > Len(properties) THEN FALSE
    ELSE LET property == properties[i]
             hit == IF property.type = "AssignmentTargetPropertyIdentifier"
                    THEN property.init.some
                         /\ is_expression_whose_name_needs_to_be_kept(property.init.val)
                    ELSE FALSE
         IN  hit \/ AnyProperty_AnyBinding(properties, i + 1, reference_id)

\* the `any` of the ObjectAssignmentTarget arm, from property i on
RECURSIVE AnyProperty(_, _, _)
AnyProperty(properties, i, reference_id) ==
    IF i > Len(properties) THEN FALSE
    ELSE LET property == properties[i]
             hit == IF property.type = "AssignmentTargetPropertyIdentifier"
                       /\ property.binding.reference_id = reference_id
                    THEN property.init.some
                         /\ is_expression_whose_name_needs_to_be_kept(property.init.val)
                    ELSE FALSE
         IN  hit \/ AnyProperty(properties, i + 1, reference_id)

\* mutant of GrandGrandParentArm: only plain `=` assignments count
GrandGrandParentArm_PlainOnly(kind, reference_id) ==
    CASE kind.type = "AssignmentExpression" ->
            /\ kind.operator = "="
            /\ is_assignment_target_id_of_specific_reference(kind.left, reference_id)
            /\ is_expression_whose_name_needs_to_be_kept(kind.right)
      [] kind.type = "AssignmentTargetWithDefault" ->
            is_assignment_target_id_of_specific_reference(kind.binding, reference_id)
            /\ is_expression_whose_name_needs_to_be_kept(kind.init)
      [] OTHER -> FALSE

\* the match on grand_grand_parent_node_kind
GrandGrandParentArm(kind, reference_id) ==
    CASE kind.type = "AssignmentExpression" ->
            is_assignment_target_id_of_specific_reference(kind.left, reference_id)
            /\ is_expression_whose_name_needs_to_be_kept(kind.right)
      [] kind.type = "AssignmentTargetWithDefault" ->
            is_assignment_target_id_of_specific_reference(kind.binding, reference_id)
            /\ is_expression_whose_name_needs_to_be_kept(kind.init)
      [] OTHER -> FALSE

\* NameSymbolCollector::is_name_set_reference_node.  debug_assertions is the
\* build setting: with it debug_assert! panics when its condition is false,
\* without it the macro expands to nothing.
is_name_set_reference_node(st, node, reference_id, debug_assertions) ==
    LET parent_node == ParentNode(st, node.id)
    IN  IF ~parent_node.some THEN Returns(FALSE)
        ELSE CASE parent_node.val.kind.type = "SimpleAssignmentTarget" ->
                    LET tuple == SkipTakeTuple(AncestorKinds(st, parent_node.val.id))
                    IN  IF ~tuple.some THEN Returns(FALSE)
                        ELSE IF debug_assertions
                                /\ tuple.val[1].type # "AssignmentTarget"
                             THEN Panics
                        ELSE Returns(GrandGrandParentArm(tuple.val[2], reference_id))
               [] parent_node.val.kind.type = "ObjectAssignmentTarget" ->
                    Returns(AnyProperty(parent_node.val.kind.properties, 1, reference_id))
               [] OTHER -> Returns(FALSE)

(***************************************************************************)
(* Scoping, the symbol table (oxc_semantic), read through the accessors    *)
(* keep_names.rs calls.                                                    *)
(***************************************************************************)
\* Scoping::symbol_ids, in the order the iterator yields them
symbol_ids(sc) == [i \in 1 .. Len(sc.symbol_declaration) |-> i - 1]

\* Scoping::symbol_declaration
symbol_declaration(sc, symbol_id) == sc.symbol_declaration[symbol_id + 1]

\* Scoping::get_resolved_reference_ids
get_resolved_reference_ids(sc, symbol_id) == sc.resolved_references[symbol_id + 1]

\* Scoping::get_reference
get_reference(sc, reference_id) == sc.references[reference_id + 1]

\* NameSymbolCollector::has_name_set_reference_node: Iterator::any stops at
\* the first reference whose test is true; a panic before that unwinds.
RECURSIVE AnyReference(_, _, _, _, _)
AnyReference(sc, st, reference_ids, i, debug_assertions) ==
    IF i > Len(reference_ids) THEN Returns(FALSE)
    ELSE LET reference_id == reference_ids[i]
             node == GetNode(st, get_reference(sc, reference_id).node_id)
             r == is_name_set_reference_node(st, node, reference_id, debug_assertions)
         IN  IF r.panic THEN Panics
             ELSE IF r.value THEN Returns(TRUE)
             ELSE AnyReference(sc, st, reference_ids, i + 1, debug_assertions)

has_name_set_reference_node(sc, st, symbol_id, debug_assertions) ==
    AnyReference(sc, st, get_resolved_reference_ids(sc, symbol_id), 1, debug_assertions)

\* mutant of CollectFilter: `&&` in place of `||`
CollectFilter_And(sc, st, symbol_id, debug_assertions) ==
    LET decl_node == GetNode(st, symbol_declaration(sc, symbol_id))
    IN  IF is_name_set_declare_node(decl_node.kind, symbol_id)
        THEN has_name_set_reference_node(sc, st, symbol_id, debug_assertions)
        ELSE Returns(FALSE)

\* the closure given to filter in NameSymbolCollector::collect
CollectFilter(sc, st, symbol_id, debug_assertions) ==
    LET decl_node == GetNode(st, symbol_declaration(sc, symbol_id))
    IN  IF is_name_set_declare_node(decl_node.kind, symbol_id)
        THEN Returns(TRUE)
        ELSE has_name_set_reference_node(sc, st, symbol_id, debug_assertions)

\* mutant of CollectFrom: the filter lets nothing through once a symbol has
\* been collected
RECURSIVE CollectFrom_StopAtFirst(_, _, _, _, _)
CollectFrom_StopAtFirst(sc, st, i, acc, debug_assertions) ==
    IF i > Len(symbol_ids(sc)) THEN [state |-> "returned", set |-> acc]
    ELSE LET symbol_id == symbol_ids(sc)[i]
             r == CollectFilter(sc, st, symbol_id, debug_assertions)
         IN  IF r.panic THEN [state |-> "panicked", set |-> {}]
             ELSE CollectFrom_StopAtFirst(sc, st, i + 1,
                              IF r.value /\ acc = {} THEN acc \cup {symbol_id} ELSE acc,
                              debug_assertions)

\* NameSymbolCollector::collect: filter over symbol_ids, collected into a
\* set; `acc` is the set collected before symbol i.
RECURSIVE CollectFrom(_, _, _, _, _)
CollectFrom(sc, st, i, acc, debug_assertions) ==
    IF i > Len(symbol_ids(sc)) THEN [state |-> "returned", set |-> acc]
    ELSE LET symbol_id == symbol_ids(sc)[i]
             r == CollectFilter(sc, st, symbol_id, debug_assertions)
         IN  IF r.panic THEN [state |-> "panicked", set |-> {}]
             ELSE CollectFrom(sc, st, i + 1,
                              IF r.value THEN acc \cup {symbol_id} ELSE acc,
                              debug_assertions)

\* collect_name_symbols
collect_name_symbols(sc, st, debug_assertions) ==
    CollectFrom(sc, st, 1, {}, debug_assertions)

(***************************************************************************)
(* Lowering a program into a node store and a symbol table, the way the    *)
(* semantic builder hands them to collect_name_symbols: one add_node call  *)
(* per visited node that has an AstKind, in visiting order.  Nodes the     *)
(* analysis never reaches from a declaration or a reference (function      *)
(* bodies, literals, property keys) are left out.                          *)
(***************************************************************************)
Kind(type) == [type |-> type]

IdentifierReference(reference_id) ==
    [type |-> "IdentifierReference", reference_id |-> reference_id]

\* an identifier read as an expression: `u`
IdentifierRead(symbol_id) == [type |-> "Identifier", symbol_id |-> symbol_id]

NextNodeId(b) == StoreLen(b.st)

NextReferenceId(b) == Len(b.references)

Push(b, kind, parent) == [b EXCEPT !.st = AddNode(b.st, kind, 0, parent, 0, 0)[1]]

\* an IdentifierReference node below `parent`, resolved to symbol_id
PushReference(b, parent, symbol_id) ==
    LET node_id == NextNodeId(b)
        b1 == Push(b, IdentifierReference(NextReferenceId(b)), parent)
    IN  [b1 EXCEPT !.references =
             Append(@, [node_id |-> node_id, symbol_id |-> symbol_id])]

\* AssignmentTarget > SimpleAssignmentTarget > IdentifierReference
PushTarget(b, parent, symbol_id) ==
    LET n == NextNodeId(b)
        b1 == Push(b, Kind("AssignmentTarget"), parent)
        b2 == Push(b1, Kind("SimpleAssignmentTarget"), n)
    IN  PushReference(b2, n + 1, symbol_id)

\* a target of a destructuring assignment, below the array or object target:
\* `t = init` is an AssignmentTargetWithDefault, `t` a plain target
PushMaybeDefault(b, parent, symbol_id, init) ==
    IF init.some
    THEN LET n == NextNodeId(b)
             b1 == Push(b, [type |-> "AssignmentTargetWithDefault",
                            binding |-> AssignmentTargetIdentifier(NextReferenceId(b)),
                            init |-> init.val], parent)
         IN  PushTarget(b1, n, symbol_id)
    ELSE PushTarget(b, parent, symbol_id)

\* ExpressionStatement > AssignmentExpression > AssignmentTarget >
\* AssignmentTargetPattern, for `<pattern> = <right>;`; the pattern node
\* comes next, below NextNodeId - 1
PushPatternAssignment(b, left_type) ==
    LET n == NextNodeId(b)
        b1 == Push(b, Kind("ExpressionStatement"), 0)
        b2 == Push(b1, [type |-> "AssignmentExpression", operator |-> "=",
                        left |-> Kind(left_type), right |-> Kind("ObjectExpression")], n)
        b3 == Push(b2, Kind("AssignmentTarget"), n + 1)
    IN  Push(b3, Kind("AssignmentTargetPattern"), n + 2)

\* the properties of an ObjectAssignmentTarget as its AstKind holds them;
\* property i binds reference first + i - 1
TargetProperties(props, first) ==
    [i \in 1 .. Len(props) |->
        IF props[i].shorthand
        THEN [type |-> "AssignmentTargetPropertyIdentifier",
              binding |-> [reference_id |-> first + i - 1],
              init |-> props[i].init]
        ELSE [type |-> "AssignmentTargetPropertyProperty"]]

\* the nodes of properties i.. below the ObjectAssignmentTarget node
RECURSIVE PushProperties(_, _, _, _)
PushProperties(b, parent, props, i) ==
    IF i > Len(props) THEN b
    ELSE PushProperties(
             IF props[i].shorthand
             THEN PushReference(b, parent, props[i].target)
             ELSE PushMaybeDefault(b, parent, props[i].target, props[i].init),
             parent, props, i + 1)

LowerStatement(b, stmt) ==
    LET n == NextNodeId(b)
    IN  CASE stmt.type = "Assign" ->        \* t op right;
                LET b1 == Push(b, Kind("ExpressionStatement"), 0)
                    b2 == Push(b1, [type |-> "AssignmentExpression",
                                    operator |-> stmt.operator,
                                    left |-> AssignmentTargetIdentifier(NextReferenceId(b)),
                                    right |-> stmt.right], n)
                    b3 == PushTarget(b2, n + 1, stmt.target)
                IN  IF stmt.right.type = "Identifier"
                    THEN PushReference(b3, n + 1, stmt.right.symbol_id)
                    ELSE b3
          [] stmt.type = "Update" ->        \* t++;
                LET b1 == Push(b, Kind("ExpressionStatement"), 0)
                    b2 == Push(b1, Kind("UpdateExpression"), n)
                    b3 == Push(b2, Kind("SimpleAssignmentTarget"), n + 1)
                IN  PushReference(b3, n + 2, stmt.target)
          [] stmt.type = "Read" ->          \* t;
                PushReference(Push(b, Kind("ExpressionStatement"), 0), n, stmt.target)
          [] stmt.type = "ArrayAssign" ->   \* [t = init] = [];  [t] = [];
                LET b1 == PushPatternAssignment(b, "ArrayAssignmentTarget")
                    b2 == Push(b1, Kind("ArrayAssignmentTarget"), n + 3)
                IN  PushMaybeDefault(b2, n + 4, stmt.target, stmt.init)
          [] stmt.type = "ObjectAssign" ->  \* ({ t = init, a: u = init } = {});
                LET b1 == PushPatternAssignment(b, "ObjectAssignmentTarget")
                    b2 == Push(b1, [type |-> "ObjectAssignmentTarget",
                                    properties |->
                                        TargetProperties(stmt.props, NextReferenceId(b))],
                               n + 3)
                IN  PushProperties(b2, n + 4, stmt.props, 1)
          [] stmt.type = "Bare" ->          \* a target with nothing around it
                PushReference(Push(b, Kind("SimpleAssignmentTarget"), 0), n, stmt.target)

RECURSIVE LowerStatements(_, _, _)
LowerStatements(b, stmts, i) ==
    IF i > Len(stmts) THEN b
    ELSE LowerStatements(LowerStatement(b, stmts[i]), stmts, i + 1)

\* for (var <declarator> in ...) / for (var <declarator> of ...)
LoopTypes == { "ForInStatement", "ForOfStatement" }

LoopDeclaration(type, left) == [type |-> type, left |-> left]

\* the declaration: a declarator sits below its VariableDeclaration, which
\* sits below the program or below the loop statement it is the left-hand
\* side of; any other declaration sits below the program.  Returns the build
\* with `decl_node` set.
LowerDeclaration(b, decl) ==
    LET n == NextNodeId(b)
    IN  IF decl.type = "VariableDeclarator"
        THEN [Push(Push(b, Kind("VariableDeclaration"), 0), decl, n)
                 EXCEPT !.decl_node = n + 1]
        ELSE IF decl.type \in LoopTypes
        THEN [Push(Push(Push(b, Kind(decl.type), 0),
                        Kind("VariableDeclaration"), n), decl.left, n + 1)
                 EXCEPT !.decl_node = n + 2]
        ELSE [Push(b, decl, 0) EXCEPT !.decl_node = n]

Build(prog) ==
    LET b0 == [st |-> AddProgramNode(EmptyStore, Kind("Program"), 0, 0, 0)[1],
               references |-> <<>>, decl_node |-> 0]
    IN  LowerStatements(LowerDeclaration(b0, prog.decl), prog.stmts, 1)

\* the ids of the references of `references` resolved to symbol_id, in order
ResolvedTo(references, symbol_id) ==
    LET ids == [i \in 1 .. Len(references) |-> i - 1]
        Hit(reference_id) == references[reference_id + 1].symbol_id = symbol_id
    IN  SelectSeq(ids, Hit)

\* the symbol table of a build: every symbol is declared at the declaration
ScopingOf(b) ==
    [symbol_declaration |-> [i \in 1 .. Cardinality(SymbolIds) |-> b.decl_node],
     resolved_references |->
         [i \in 1 .. Cardinality(SymbolIds) |-> ResolvedTo(b.references, i - 1)],
     references |-> b.references]

(***************************************************************************)
(* The programs collect_name_symbols is applied to.                        *)
(***************************************************************************)
\* number of constructors (identifiers, holes, array and object patterns,
\* defaults) of the destructuring patterns of the declarations
MaxPatternSize == 4

\* number of statements of the programs that mix references
MaxStmts == 2

\* Destructuring patterns by size.  An item is [p |-> pattern, binds |-> the
\* symbols it binds]; a symbol is bound at one position of a pattern at most.
\* `tab[j]` holds the items of size j.  Slots(tab, m, holes) is the set of
\* sequences of sub-patterns (and, with holes, elisions) of total size m.
Heads(tab, j, holes) ==
    IF j = 1 /\ holes THEN tab[j] \cup { [p |-> None, binds |-> {}] } ELSE tab[j]

RECURSIVE Slots(_, _, _)
Slots(tab, m, holes) ==
    IF m = 0 THEN { [seq |-> <<>>, binds |-> {}] }
    ELSE UNION {
             { [seq |-> <<q[1].p>> \o q[2].seq, binds |-> q[1].binds \cup q[2].binds] :
                 q \in { x \in Heads(tab, j, holes) \X Slots(tab, m - j, holes) :
                            x[1].binds \cap x[2].binds = {} } } :
             j \in 1 .. m }

\* wrap the sub-patterns of an array: Some(pattern), or None for a hole
AsElements(seq) ==
    [i \in 1 .. Len(seq) |-> IF "type" \in DOMAIN seq[i] THEN Some(seq[i]) ELSE None]

AsProperties(seq) == [i \in 1 .. Len(seq) |-> BindingProperty(seq[i])]

PatternsOfSize(tab, k) ==
    IF k = 1 THEN { [p |-> BindingIdentifier(s), binds |-> {s}] : s \in SymbolIds }
    ELSE { [p |-> AssignmentPattern(l.p, e), binds |-> l.binds] :
               l \in tab[k - 1], e \in Exprs }
         \cup { [p |-> ArrayPattern(AsElements(r.seq)), binds |-> r.binds] :
                    r \in Slots(tab, k - 1, TRUE) }
         \cup { [p |-> ObjectPattern(AsProperties(r.seq)), binds |-> r.binds] :
                    r \in Slots(tab, k - 1, FALSE) }

RECURSIVE PatternTable(_)
PatternTable(k) ==
    IF k = 0 THEN <<>>
    ELSE LET tab == PatternTable(k - 1) IN Append(tab, PatternsOfSize(tab, k))

\* the patterns a declarator can bind: array and object patterns
DeclaratorPatterns ==
    LET tab == PatternTable(MaxPatternSize)
    IN  { x.p : x \in { y \in UNION { tab[k] : k \in 1 .. MaxPatternSize } :
                          y.p.type \in {"ArrayPattern", "ObjectPattern"} } }

OptionalExprs == { None } \cup { Some(e) : e \in Exprs }

OptionalIds == { None } \cup { Some(BindingIdentifier(s)) : s \in SymbolIds }

VariableDeclarator(id, init) == [type |-> "VariableDeclarator", id |-> id, init |-> init]

\* function f() {}  class C {}  var s = init;  var s;  catch (e)
SimpleDeclarations ==
    { [type |-> "Function", id |-> id] : id \in OptionalIds }
    \cup { [type |-> "Class", id |-> id] : id \in OptionalIds }
    \cup { VariableDeclarator(BindingIdentifier(s), init) :
               s \in SymbolIds, init \in OptionalExprs }
    \cup { Kind("CatchParameter") }

DistinctSymbols == { st \in SymbolIds \X SymbolIds : st[1] # st[2] }

\* a default on a sub-pattern that holds a defaulted identifier:
\* `[[s = d] = e]` and `{ a: { b: s = d } = e }`
NestedDefaultPatterns ==
    { ArrayPattern(<<Some(AssignmentPattern(
          ArrayPattern(<<Some(AssignmentPattern(BindingIdentifier(s), d))>>), e))>>) :
          s \in SymbolIds, d \in Exprs, e \in Exprs }
    \cup { ObjectPattern(<<BindingProperty(AssignmentPattern(
               ObjectPattern(<<BindingProperty(AssignmentPattern(BindingIdentifier(s), d))>>),
               e))>>) :
               s \in SymbolIds, d \in Exprs, e \in Exprs }

\* larger patterns: spec.md 8's nested `[{ a: [s = e] }]`, and two defaulted
\* siblings, `[s = d, t = e]` and `{ a: s = d, b: t = e }`
DeepPatterns ==
    { ArrayPattern(<<Some(ObjectPattern(<<BindingProperty(
          ArrayPattern(<<Some(AssignmentPattern(BindingIdentifier(s), e))>>))>>))>>) :
          s \in SymbolIds, e \in Exprs }
    \cup { ArrayPattern(<<Some(AssignmentPattern(BindingIdentifier(st[1]), d)),
                         Some(AssignmentPattern(BindingIdentifier(st[2]), e))>>) :
               st \in DistinctSymbols, d \in Exprs, e \in Exprs }
    \cup { ObjectPattern(<<BindingProperty(AssignmentPattern(BindingIdentifier(st[1]), d)),
                          BindingProperty(AssignmentPattern(BindingIdentifier(st[2]), e))>>) :
               st \in DistinctSymbols, d \in Exprs, e \in Exprs }

\* var <pattern> = function () {};
PatternDeclarations ==
    { VariableDeclarator(p, Some(FunctionExpression(None))) :
          p \in DeclaratorPatterns \cup DeepPatterns \cup NestedDefaultPatterns }

\* the declarators on the left of a loop: `var s = init` (for-in only takes
\* an initializer), `var s`, `var [s = e]`
LoopDeclarations ==
    { LoopDeclaration("ForInStatement", VariableDeclarator(BindingIdentifier(s), init)) :
          s \in SymbolIds, init \in OptionalExprs }
    \cup { LoopDeclaration(ty, VariableDeclarator(
                ArrayPattern(<<Some(AssignmentPattern(BindingIdentifier(s), e))>>), None)) :
               ty \in LoopTypes, s \in SymbolIds, e \in Exprs }
    \cup { LoopDeclaration("ForOfStatement", VariableDeclarator(BindingIdentifier(s), None)) :
               s \in SymbolIds }

\* the declarations the programs with references start with
FewDeclarations ==
    { VariableDeclarator(BindingIdentifier(0), None),
      VariableDeclarator(BindingIdentifier(0), Some(NumericLiteral)),
      VariableDeclarator(BindingIdentifier(0), Some(FunctionExpression(None))),
      [type |-> "Function", id |-> Some(BindingIdentifier(1))] }

AssignmentOperators == { "=", "||=", "&&=", "??=", "+=", "-=" }

\* a property of an object assignment target: shorthand `t = init` / `t`,
\* or `key: t = init` / `key: t`
TargetProperty(shorthand, target, init) ==
    [shorthand |-> shorthand, target |-> target, init |-> init]

FewInits == { None, Some(FunctionExpression(None)), Some(FunctionExpression(Some("named"))) }

Statements ==
    { [type |-> "Assign", operator |-> op, target |-> t, right |-> e] :
          op \in AssignmentOperators, t \in SymbolIds, e \in Exprs }
    \cup { [type |-> "Assign", operator |-> "=", target |-> t, right |-> IdentifierRead(u)] :
               t \in SymbolIds, u \in SymbolIds }
    \cup { [type |-> ty, target |-> t] : ty \in {"Update", "Read", "Bare"}, t \in SymbolIds }
    \cup { [type |-> "ArrayAssign", target |-> t, init |-> init] :
               t \in SymbolIds, init \in OptionalExprs }
    \cup { [type |-> "ObjectAssign", props |-> <<TargetProperty(sh, t, init)>>] :
               sh \in BOOLEAN, t \in SymbolIds, init \in OptionalExprs }
    \cup { [type |-> "ObjectAssign",
            props |-> <<TargetProperty(TRUE, t, i), TargetProperty(TRUE, u, j)>>] :
               t \in SymbolIds, u \in SymbolIds, i \in FewInits, j \in FewInits }

\* the statements of the programs that mix several references
FewStatements ==
    { [type |-> "Assign", operator |-> op, target |-> t, right |-> e] :
          op \in {"=", "+="}, t \in SymbolIds,
          e \in { FunctionExpression(None), NumericLiteral } }
    \cup { [type |-> ty, target |-> t] : ty \in {"Update", "Read"}, t \in SymbolIds }
    \cup { [type |-> "ArrayAssign", target |-> t, init |-> Some(ArrowFunctionExpression)] :
               t \in SymbolIds }

RECURSIVE SeqsOfLen(_, _)
SeqsOfLen(S, n) ==
    IF n = 0 THEN { <<>> }
    ELSE { Append(q, x) : q \in SeqsOfLen(S, n - 1), x \in S }

Program(decl, stmts) == [decl |-> decl, stmts |-> stmts]

\* a declaration alone; a declaration and one statement; a loop with a
\* declaration on its left, alone or followed by a statement; a declaration
\* and two to MaxStmts statements
Programs ==
    { Program(d, <<>>) : d \in SimpleDeclarations \cup PatternDeclarations }
    \cup { Program(d, <<s>>) : d \in FewDeclarations, s \in Statements }
    \cup { Program(d, q) :
               d \in LoopDeclarations,
               q \in { <<>> } \cup { <<s>> : s \in FewStatements } }
    \cup { Program(d, q) :
               d \in FewDeclarations,
               q \in UNION { SeqsOfLen(FewStatements, n) : n \in 2 .. MaxStmts } }

\* the add calls that built store st, each with the id the store holds for it
CallsOf(st) ==
    [i \in 1 .. StoreLen(st) |->
        [op |-> IF ParentId(st, i - 1).some THEN "add_node" ELSE "add_program_node",
         id |-> GetNode(st, i - 1).id]]

\* the program and symbol table of a state of Spec, which runs no analysis
NoProgram == [decl |-> [type |-> "None"], stmts |-> <<>>]

NoScoping == [symbol_declaration |-> <<>>, resolved_references |-> <<>>, references |-> <<>>]

(***************************************************************************)
(* The node store as a state machine.                                      *)
(***************************************************************************)
CurStore == Store(nodes, parent_ids, root)

\* The caller contract of the add calls (spec.md 4.1: "callers must guarantee
\* single root assignment"; a parent is a node that exists).
ProgramCallOk == Len(nodes) = 0

NodeCallOk(parent_node_id) == parent_node_id < Len(nodes)

Init ==
    /\ nodes = <<>>
    /\ parent_ids = <<>>
    /\ root = None
    /\ contract = TRUE
    /\ last_id = None
    /\ calls = <<>>
    /\ flag_updates = 0
    /\ program = NoProgram
    /\ scoping = NoScoping
    /\ out = [state |-> "idle"]
    /\ runs = {}

add_node(kind, scope_id, parent_node_id, cfg_id, flags) ==
    /\ Len(nodes) < MaxNodes
    /\ LET r == AddNode(CurStore, kind, scope_id, parent_node_id, cfg_id, flags)
       IN  /\ nodes' = r[1].nodes
           /\ parent_ids' = r[1].parent_ids
           /\ root' = r[1].root
           /\ last_id' = Some(r[2])
           /\ calls' = Append(calls, [op |-> "add_node", id |-> r[2]])
    /\ contract' = (contract /\ NodeCallOk(parent_node_id))
    /\ UNCHANGED <<flag_updates, keepVars>>

add_program_node(kind, scope_id, cfg_id, flags) ==
    /\ Len(nodes) < MaxNodes
    /\ LET r == AddProgramNode(CurStore, kind, scope_id, cfg_id, flags)
       IN  /\ nodes' = r[1].nodes
           /\ parent_ids' = r[1].parent_ids
           /\ root' = r[1].root
           /\ last_id' = Some(r[2])
           /\ calls' = Append(calls, [op |-> "add_program_node", id |-> r[2]])
    /\ contract' = (contract /\ ProgramCallOk)
    /\ UNCHANGED <<flag_updates, keepVars>>

\* a later pass writes the flags of a stored node in place:
\* *nodes.get_node_mut(ast_node_id).flags_mut() = flags
flags_mut(ast_node_id, flags) ==
    /\ ast_node_id < Len(nodes)
    /\ flag_updates < MaxFlagUpdates
    /\ LET st == FlagsMut(CurStore, ast_node_id, flags)
       IN  /\ nodes' = st.nodes
           /\ parent_ids' = st.parent_ids
           /\ root' = st.root
    /\ flag_updates' = flag_updates + 1
    /\ UNCHANGED <<contract, last_id, calls, keepVars>>

Next ==
    \/ \E i \in NodeInputs, p \in NodeIds :
          add_node(i.kind, i.scope_id, p, i.cfg_id, i.flags)
    \/ \E i \in NodeInputs :
          add_program_node(i.kind, i.scope_id, i.cfg_id, i.flags)
    \/ \E id \in NodeIds, flags \in FlagValues : flags_mut(id, flags)

Spec == Init /\ [][Next]_vars

(***************************************************************************)
(* collect_name_symbols applied to a program.                              *)
(***************************************************************************)
InitKeep ==
    \E prog \in Programs :
        LET b == Build(prog)
        IN  /\ program = prog
            /\ nodes = b.st.nodes
            /\ parent_ids = b.st.parent_ids
            /\ root = b.st.root
            /\ contract = TRUE
            /\ last_id = Some(StoreLen(b.st) - 1)
            /\ calls = CallsOf(b.st)
            /\ flag_updates = 0
            /\ scoping = ScopingOf(b)
            /\ out = [state |-> "pending", set |-> {}]
            /\ runs = {}

\* one run of collect_name_symbols(scoping, ast_nodes), the first or a later
\* one, in a build with or without debug assertions
collect(debug_assertions) ==
    /\ out' = collect_name_symbols(scoping, CurStore, debug_assertions)
    /\ runs' = runs \cup { [debug_assertions |-> debug_assertions, result |-> out'] }
    /\ UNCHANGED <<nodes, parent_ids, root, contract, last_id, calls, flag_updates,
                   program, scoping>>

NextKeep == \E debug_assertions \in BOOLEAN : collect(debug_assertions)

SpecKeep == InitKeep /\ [][NextKeep]_vars

(***************************************************************************)
(* Properties of collect_name_symbols (SpecKeep).                          *)
(***************************************************************************)
\* collect_name_symbols has returned its set
Returned == out.state = "returned"

\* the declaration-site test of symbol s on the declaration node of s
DeclarationTest(s) ==
    is_name_set_declare_node(KindOf(CurStore, symbol_declaration(scoping, s)), s)

\* the reference-site test of reference r passes
ReferenceTest(r) ==
    LET o == is_name_set_reference_node(
                 CurStore, GetNode(CurStore, get_reference(scoping, r).node_id), r, FALSE)
    IN  ~o.panic /\ o.value

\* the ids of the resolved references of symbol s
ReferencesOf(s) ==
    { r \in 0 .. (Len(scoping.references) - 1) : get_reference(scoping, r).symbol_id = s }

\* spec.md 4.2: "anonymous-definable expression"
AnonymousDefinable(e) ==
    e \in { ArrowFunctionExpression, FunctionExpression(None), ClassExpression(None) }

\* the operators of spec.md 4.2 step 2: plain and logical assignment
NamingOperators == { "=", "||=", "&&=", "??=" }

\* the declarations of the programs that match no symbol
MatchesNoSymbol(decl) ==
    /\ decl.type = "VariableDeclarator"
    /\ decl.id.type = "BindingIdentifier"
    /\ ~(decl.init.some /\ AnonymousDefinable(decl.init.val))

\* C1: the returned set holds exactly the known symbols whose declaration
\* node passes the declaration-site test or one of whose resolved references
\* passes the reference-site test, and nothing else.
C1_PreservedIffAnyEvidence ==
    Returned =>
        /\ out.set \subseteq SymbolIds
        /\ \A s \in SymbolIds :
               s \in out.set <=>
                   (DeclarationTest(s) \/ \E r \in ReferencesOf(s) : ReferenceTest(r))

\* C1 witness: a symbol whose declaration does not match, with one passing
\* and one failing reference, is in the returned set; the other symbol, with
\* no evidence, is not.
C1_Witness ==
    /\ Returned
    /\ \E s \in SymbolIds :
          /\ ~DeclarationTest(s)
          /\ \E r1 \in ReferencesOf(s), r2 \in ReferencesOf(s) :
                r1 < r2 /\ ~ReferenceTest(r1) /\ ReferenceTest(r2)
          /\ s \in out.set
    /\ \E t \in SymbolIds : ReferencesOf(t) = {} /\ ~DeclarationTest(t) /\ t \notin out.set

\* C2: a function or class declaration node whose own identifier binds s
\* puts s in the set whatever the references are; without an identifier, or
\* with the identifier of another symbol, and with no passing reference, s
\* is not in the set.
C2_FunctionOrClassDeclaration ==
    (Returned /\ program.decl.type \in {"Function", "Class"}) =>
        \A s \in SymbolIds :
            IF program.decl.id = Some(BindingIdentifier(s))
            THEN s \in out.set
            ELSE (\A r \in ReferencesOf(s) : ~ReferenceTest(r)) => s \notin out.set

\* C2 witness: `function f() {}` with f bound to symbol 1, followed by a
\* statement with references: the set is {1}.
C2_Witness ==
    /\ Returned
    /\ program.decl = [type |-> "Function", id |-> Some(BindingIdentifier(1))]
    /\ Len(program.stmts) > 0
    /\ out.set = {1}

\* C3: for `var s = init` / `var s`, s is preserved by the declaration when
\* the initializer exists and is anonymous-definable; otherwise, with no
\* passing reference, s is not in the set.
C3_SimpleDeclarator ==
    (Returned /\ program.decl.type = "VariableDeclarator"
              /\ program.decl.id.type = "BindingIdentifier") =>
        LET s == program.decl.id.symbol_id
            init == program.decl.init
        IN  IF init.some /\ AnonymousDefinable(init.val)
            THEN s \in out.set
            ELSE (\A r \in ReferencesOf(s) : ~ReferenceTest(r)) => s \notin out.set

\* C3 witness: `var s = function named() {}` leaves the set empty.
C3_Witness ==
    /\ Returned
    /\ program.decl = VariableDeclarator(BindingIdentifier(0),
                                         Some(FunctionExpression(Some("named"))))
    /\ out.set = {}

\* C4: a statement `t op e` with op one of =, ||=, &&=, ??= and e
\* anonymous-definable puts t in the set, whatever the declaration is.
C4_AssignmentPreserves ==
    Returned =>
        \A i \in 1 .. Len(program.stmts) :
            LET stmt == program.stmts[i]
            IN  (/\ stmt.type = "Assign"
                 /\ stmt.operator \in NamingOperators
                 /\ AnonymousDefinable(stmt.right)) => stmt.target \in out.set

\* C4 witness: `var s; s ??= class {}` returns {s}.
C4_Witness ==
    /\ Returned
    /\ program.decl = VariableDeclarator(BindingIdentifier(0), None)
    /\ program.stmts = << [type |-> "Assign", operator |-> "??=", target |-> 0,
                           right |-> ClassExpression(None)] >>
    /\ out.set = {0}

\* a statement holds a reference to s in one of the shapes of spec.md 4.2
\* step 2: the target of a naming assignment, or a default-valued target of a
\* destructuring assignment, with an anonymous-definable right-hand side
ListedShape(stmt, s) ==
    CASE stmt.type = "Assign" ->
            /\ stmt.target = s
            /\ stmt.operator \in NamingOperators
            /\ AnonymousDefinable(stmt.right)
      [] stmt.type = "ArrayAssign" ->
            stmt.target = s /\ stmt.init.some /\ AnonymousDefinable(stmt.init.val)
      [] stmt.type = "ObjectAssign" ->
            \E j \in 1 .. Len(stmt.props) :
                /\ stmt.props[j].target = s
                /\ stmt.props[j].init.some
                /\ AnonymousDefinable(stmt.props[j].init.val)
      [] OTHER -> FALSE

\* C5: a symbol whose declaration does not match is in the set only if one
\* of its references has a listed shape: a target of += or -=, a read, the
\* right-hand side of an assignment contribute nothing.
C5_OnlyListedShapes ==
    (Returned /\ MatchesNoSymbol(program.decl)) =>
        \A s \in out.set :
            \E i \in 1 .. Len(program.stmts) : ListedShape(program.stmts[i], s)

\* the defaults attached directly to the identifier s inside pattern p, at
\* any depth
RECURSIVE DefaultsOf(_, _)
DefaultsOf(p, s) ==
    CASE p.type = "BindingIdentifier" -> {}
      [] p.type = "ObjectPattern" ->
            UNION { DefaultsOf(p.properties[i].value, s) : i \in 1 .. Len(p.properties) }
      [] p.type = "ArrayPattern" ->
            UNION { IF p.elements[i].some THEN DefaultsOf(p.elements[i].val, s) ELSE {} :
                      i \in 1 .. Len(p.elements) }
      [] p.type = "AssignmentPattern" ->
            (IF p.left = BindingIdentifier(s) THEN {p.right} ELSE {})
            \cup DefaultsOf(p.left, s)

TargetsOf(stmt) ==
    CASE stmt.type = "ArrayAssign" -> { <<stmt.target, stmt.init>> }
      [] stmt.type = "ObjectAssign" ->
            { <<stmt.props[j].target, stmt.props[j].init>> : j \in 1 .. Len(stmt.props) }
      [] OTHER -> {}

\* C7: with a declaration that matches nothing and one destructuring
\* assignment, s is in the set exactly when a target of the statement binds
\* s with an anonymous-definable default; a default of another target of the
\* same object target does not count for s.
C7_DefaultedAssignmentTarget ==
    (Returned /\ MatchesNoSymbol(program.decl) /\ Len(program.stmts) = 1
              /\ program.stmts[1].type \in {"ArrayAssign", "ObjectAssign"}) =>
        \A s \in SymbolIds :
            s \in out.set <=>
                \E t \in TargetsOf(program.stmts[1]) :
                    t[1] = s /\ t[2].some /\ AnonymousDefinable(t[2].val)

\* C7 witness: `({ s = function () {}, t = function named() {} } = {})`
\* returns {s}.
C7_Witness ==
    /\ Returned
    /\ MatchesNoSymbol(program.decl)
    /\ program.stmts =
           << [type |-> "ObjectAssign",
               props |-> << TargetProperty(TRUE, 0, Some(FunctionExpression(None))),
                            TargetProperty(TRUE, 1, Some(FunctionExpression(Some("named")))) >>] >>
    /\ out.set = {0}

\* C8: the analyzer is total: no run of collect_name_symbols trips an
\* assertion, whatever the ancestors of a reference are.
C8_NeverPanics == out.state # "panicked"

\* the symbols a statement refers to
ReferencedSymbols(stmt) ==
    CASE stmt.type = "Assign" ->
            {stmt.target} \cup (IF stmt.right.type = "Identifier"
                                THEN {stmt.right.symbol_id} ELSE {})
      [] stmt.type = "ObjectAssign" ->
            { stmt.props[j].target : j \in 1 .. Len(stmt.props) }
      [] OTHER -> {stmt.target}

\* the program without the statements that refer to other symbols than s only
WithoutOthers(prog, s) ==
    LET RefersTo(stmt) == s \in ReferencedSymbols(stmt)
    IN  Program(prog.decl, SelectSeq(prog.stmts, RefersTo))

\* the symbol tables that differ from sc in the evidence of one other symbol
\* than s: its declaration node is the root, the node stored last or the one
\* it was, and its resolved references are kept or dropped
OtherEvidence(sc, s) ==
    { [sc EXCEPT !.symbol_declaration[x[1] + 1] = x[2],
                 !.resolved_references[x[1] + 1] = IF x[3] THEN <<>> ELSE @] :
          x \in (SymbolIds \ {s})
                    \X { 0, Len(nodes) - 1, symbol_declaration(sc, s) }
                    \X BOOLEAN }

\* s is in the set of a run on (sc, st) that returns
PreservedIn(sc, st, s) ==
    LET o == collect_name_symbols(sc, st, FALSE)
    IN  o.state = "returned" /\ s \in o.set

\* C14: collect_name_symbols is deterministic and free of side effects: the
\* runs made on one store and table in one build have the same outcome, all
\* runs that return return the same set, the store and the table are after
\* the runs what the program was lowered to, and whether s is in the set does
\* not change when the evidence of another symbol does (its declaration node,
\* its references, the statements that refer to it).
C14_DeterministicIndependent ==
    LET b == Build(program)
    IN  /\ runs # {} => (CurStore = b.st /\ scoping = ScopingOf(b))
        /\ \A r1 \in runs, r2 \in runs :
              /\ r1.debug_assertions = r2.debug_assertions => r1.result = r2.result
              /\ (r1.result.state = "returned" /\ r2.result.state = "returned")
                    => r1.result.set = r2.result.set
        /\ Returned =>
              \A s \in SymbolIds :
                  /\ \A sc \in OtherEvidence(scoping, s) :
                         s \in out.set <=> PreservedIn(sc, CurStore, s)
                  /\ LET b2 == Build(WithoutOthers(program, s))
                     IN  s \in out.set <=> PreservedIn(ScopingOf(b2), b2.st, s)

\* C14 witness: a run in each build returned the same non-empty set, which
\* leaves out a symbol, on a program with a statement that refers to the
\* symbol left out only.
C14_Witness ==
    /\ Cardinality(runs) = 2
    /\ \A r \in runs : r.result = out /\ r.result.state = "returned"
    /\ \E s \in SymbolIds, t \in SymbolIds :
          /\ s \in out.set
          /\ t \notin out.set
          /\ WithoutOthers(program, s) # program

\* C15: the declarator on the left of a for-in / for-of statement is
\* classified as the same declarator in an ordinary variable statement: the
\* declaration-site test gives the same answer for every symbol, the program
\* with the loop yields the set the program with the ordinary statement
\* yields, and `for (var s = <anonymous-definable> in ...)` preserves s.
C15_LoopDeclarator ==
    (Returned /\ program.decl.type \in LoopTypes) =>
        LET left == program.decl.left
            b2 == Build(Program(left, program.stmts))
        IN  /\ KindOf(CurStore, symbol_declaration(scoping, 0)) = left
            /\ \A s \in SymbolIds :
                   DeclarationTest(s)
                       <=> is_name_set_declare_node(KindOf(b2.st, b2.decl_node), s)
            /\ out = collect_name_symbols(ScopingOf(b2), b2.st, FALSE)
            /\ (/\ left.id.type = "BindingIdentifier"
                /\ left.init.some
                /\ AnonymousDefinable(left.init.val)) => left.id.symbol_id \in out.set

\* C15 witness: `for (var s = () => {} in ...)` returns {s}, with the
\* declarator two levels below a ForInStatement node.
C15_Witness ==
    /\ Returned
    /\ program = Program(LoopDeclaration("ForInStatement",
                     VariableDeclarator(BindingIdentifier(0), Some(ArrowFunctionExpression))),
                     <<>>)
    /\ KindOf(CurStore, 1).type = "ForInStatement"
    /\ Ancestors(CurStore, symbol_declaration(scoping, 0)).ids = <<3, 2, 1, 0>>
    /\ out.set = {0}

\* the defaults attached to a sub-pattern of p that is not an identifier and
\* binds s
RECURSIVE OuterDefaultsOf(_, _)
OuterDefaultsOf(p, s) ==
    CASE p.type = "BindingIdentifier" -> {}
      [] p.type = "ObjectPattern" ->
            UNION { OuterDefaultsOf(p.properties[i].value, s) : i \in 1 .. Len(p.properties) }
      [] p.type = "ArrayPattern" ->
            UNION { IF p.elements[i].some THEN OuterDefaultsOf(p.elements[i].val, s) ELSE {} :
                      i \in 1 .. Len(p.elements) }
      [] p.type = "AssignmentPattern" ->
            (IF p.left.type # "BindingIdentifier" /\ PatternBinds(p.left, s)
             THEN {p.right} ELSE {})
            \cup OuterDefaultsOf(p.left, s)

\* C17: in `var <pattern> = init`, a symbol s bound inside a sub-pattern that
\* carries a default is judged by the default attached directly to s alone:
\* it is in the set exactly when `s = e` has an anonymous-definable e, whatever
\* the default of the enclosing sub-pattern is, and not when s has no default
\* of its own.
C17_OuterDefaultNotAttributed ==
    (Returned /\ program.decl.type = "VariableDeclarator"
              /\ program.decl.id.type \in {"ArrayPattern", "ObjectPattern"}
              /\ program.stmts = <<>>) =>
        \A s \in SymbolIds :
            OuterDefaultsOf(program.decl.id, s) # {} =>
                /\ find_assign_binding_pattern_kind_of_specific_symbol(program.decl.id, s).some
                       <=> DefaultsOf(program.decl.id, s) # {}
                /\ s \in out.set <=>
                       \E d \in DefaultsOf(program.decl.id, s) : AnonymousDefinable(d)

\* C17 witness: `var [[s = function named() {}] = function () {}] = ...`
\* returns the empty set: the anonymous default of the enclosing sub-pattern
\* does nothing for s.
C17_Witness ==
    /\ Returned
    /\ program.decl.type = "VariableDeclarator"
    /\ program.decl.id =
           ArrayPattern(<<Some(AssignmentPattern(
               ArrayPattern(<<Some(AssignmentPattern(BindingIdentifier(0),
                                                     FunctionExpression(Some("named"))))>>),
               FunctionExpression(None)))>>)
    /\ OuterDefaultsOf(program.decl.id, 0) = {FunctionExpression(None)}
    /\ out.set = {}

(***************************************************************************)
(* Properties of the node store (Spec).                                    *)
(***************************************************************************)
StoredIds == 0 .. (Len(nodes) - 1)

\* the stored nodes that have no parent
Parentless == { id \in StoredIds : ~ParentId(CurStore, id).some }

\* the ancestor chain of id ends, and ends at node r
ChainReaches(id, r) ==
    LET a == Ancestors(CurStore, id)
    IN  a.end = "done" /\ a.ids[Len(a.ids)] = r

\* at most one stored node has no parent, root() names it, and the ancestor
\* chain of every other node reaches it
RootUnique ==
    /\ Cardinality(Parentless) <= 1
    /\ \A r \in Parentless :
          /\ Root(CurStore) = Some(r)
          /\ \A id \in StoredIds \ {r} : ChainReaches(id, r)

\* C9 as stated: RootUnique after any sequence of add calls.
C9_RootUniqueAfterAnyCalls == RootUnique

\* C9 amended: RootUnique after any sequence of add calls in which
\* add_program_node is called on an empty store only and every add_node
\* passes as parent an id the store has already assigned.
C9_RootUniqueUnderContract == contract => RootUnique

\* C9 witness: a store built within the contract, with a node two levels
\* below the root.
C9_Witness ==
    /\ contract
    /\ Len(nodes) >= 3
    /\ \E id \in StoredIds : Len(Ancestors(CurStore, id).ids) = 3
    /\ RootUnique

\* the last element of a non-empty sequence
Last(seq) == seq[Len(seq)]

\* what C10 says a traversal from id yields: nothing for the root, otherwise
\* a finite sequence that starts with the parent of id and ends at the root
StartsAtParent(t, id) ==
    /\ t.end = "done"
    /\ IF ParentId(CurStore, id).some
       THEN /\ t.ids # <<>>
            /\ t.ids[1] = ParentId(CurStore, id).val
            /\ t.ids[1] # id
            /\ Some(Last(t.ids)) = Root(CurStore)
       ELSE t.ids = <<>>

\* C10: in a store built within the caller contract, ancestors(id) and
\* iter_parents(id) start at the parent of id, end at the root, and yield
\* nothing for the root.
C10_TraversalStartsAtParent ==
    contract =>
        \A id \in StoredIds :
            /\ StartsAtParent(Ancestors(CurStore, id), id)
            /\ StartsAtParent(IterParents(CurStore, id), id)

\* the stored nodes k parent links below a parentless node, found from the
\* top: level 0 holds the parentless nodes, level k the children of level k - 1
RECURSIVE Level(_)
Level(k) ==
    IF k = 0 THEN Parentless
    ELSE { id \in StoredIds :
               ParentId(CurStore, id).some /\ ParentId(CurStore, id).val \in Level(k - 1) }

\* no id occurs twice in seq
NoRepeat(seq) == \A i, j \in 1 .. Len(seq) : i # j => seq[i] # seq[j]

\* every recorded parent link goes to an id assigned before the node's own
\* (so never to the node itself), and from every node the ancestor traversal
\* ends at the root without visiting an id twice, after as many parent steps
\* as the node's depth
AcyclicToRoot ==
    \A id \in StoredIds :
        LET a == Ancestors(CurStore, id)
        IN  /\ ParentId(CurStore, id).some => ParentId(CurStore, id).val < id
            /\ a.end = "done"
            /\ NoRepeat(a.ids)
            /\ Some(Last(a.ids)) = Root(CurStore)
            /\ id \in Level(Len(a.ids) - 1)

\* C11 as stated: after any sequence of add calls the parent links hold no
\* cycle and every ancestor traversal ends at the root in depth-many steps;
\* add_node records no link to the node itself or to an unassigned id.
C11_AcyclicAfterAnyCalls == AcyclicToRoot

\* C11 amended: the same, after any sequence of add calls that keeps the
\* caller contract (add_program_node on the empty store only, every parent
\* passed to add_node already assigned).
C11_AcyclicUnderContract == contract => AcyclicToRoot

\* C11 witness: a store built within the contract that holds a node of depth
\* 2, whose traversal takes two parent steps to the root.
C11_Witness ==
    /\ contract
    /\ \E id \in StoredIds :
          /\ id \in Level(2)
          /\ Len(Ancestors(CurStore, id).ids) = 3
          /\ Some(Last(Ancestors(CurStore, id).ids)) = Root(CurStore)

\* C12: the N add calls made on the empty store, in any mix of add_node and
\* add_program_node, returned the ids 0 .. N-1 in insertion order (each the
\* store length before its call), pairwise distinct, and len() is N.
C12_DenseIds ==
    LET N == Len(calls)
    IN  /\ StoreLen(CurStore) = N
        /\ \A i \in 1 .. N : calls[i].id = i - 1
        /\ \A i, j \in 1 .. N : i # j => calls[i].id # calls[j].id
        /\ { calls[i].id : i \in 1 .. N } = 0 .. (N - 1)
        /\ last_id = IF N = 0 THEN None ELSE Some(N - 1)

\* C12 witness: three calls, add_program_node between two add_node calls,
\* returned 0, 1, 2.
C12_Witness ==
    /\ Len(calls) = 3
    /\ [i \in 1 .. 3 |-> calls[i].op] = <<"add_node", "add_program_node", "add_node">>
    /\ [i \in 1 .. 3 |-> calls[i].id] = <<0, 1, 2>>
    /\ StoreLen(CurStore) = 3

\* the structural fields of node id and its parent link are the same before
\* and after the step
SameStructure(id) ==
    /\ nodes'[id + 1].kind = nodes[id + 1].kind
    /\ nodes'[id + 1].scope_id = nodes[id + 1].scope_id
    /\ nodes'[id + 1].cfg_id = nodes[id + 1].cfg_id
    /\ nodes'[id + 1].id = nodes[id + 1].id
    /\ parent_ids'[id + 1] = parent_ids[id + 1]

\* an add call: every node stored before it is still stored, unchanged
Additive ==
    /\ Len(nodes') = Len(nodes) + 1
    /\ Len(parent_ids') = Len(parent_ids) + 1
    /\ \A id \in StoredIds : SameStructure(id) /\ nodes'[id + 1] = nodes[id + 1]

\* a flag update of node id: nothing but the flags of that node changes
OnlyFlagsOf(id, flags) ==
    /\ Len(nodes') = Len(nodes)
    /\ parent_ids' = parent_ids
    /\ root' = root
    /\ nodes'[id + 1].flags = flags
    /\ SameStructure(id)
    /\ \A other \in StoredIds \ {id} : nodes'[other + 1] = nodes[other + 1]

\* C13: every add call is purely additive (kind, scope id, flow-block id,
\* stored id and parent id of every earlier node are unchanged, no node is
\* removed), and a flag update through get_node_mut / flags_mut changes the
\* flags of that one node and nothing else in the store.
C13_AdditiveFrame ==
    [][ /\ (calls' # calls) => Additive
        /\ \A id \in NodeIds, flags \in FlagValues :
               flags_mut(id, flags) => OnlyFlagsOf(id, flags) ]_vars

\* C13 witness: a store of three nodes or more in which a flag update gave a
\* node flags that no add call passes with its kind, while the other nodes
\* still have the flags they were added with.
C13_Witness ==
    /\ flag_updates = 1
    /\ Len(nodes) >= 3
    /\ \E id \in StoredIds :
          /\ [kind |-> nodes[id + 1].kind, scope_id |-> nodes[id + 1].scope_id,
              cfg_id |-> nodes[id + 1].cfg_id, flags |-> nodes[id + 1].flags]
                 \notin NodeInputs
          /\ \A other \in StoredIds \ {id} :
                [kind |-> nodes[other + 1].kind, scope_id |-> nodes[other + 1].scope_id,
                 cfg_id |-> nodes[other + 1].cfg_id, flags |-> nodes[other + 1].flags]
                    \in NodeInputs

\* C16: the node array and the parent-id array have the same length, every
\* stored node's id field is the index it is stored at, and root() is Some
\* exactly when add_program_node has been called.
C16_ParallelArrays ==
    /\ Len(nodes) = Len(parent_ids)
    /\ \A i \in StoredIds : GetNode(CurStore, i).id = i
    /\ Root(CurStore).some <=>
           \E i \in 1 .. Len(calls) : calls[i].op = "add_program_node"

\* C16 witness: three add_node calls and no add_program_node: root() is
\* None and the ids are the indices.
C16_Witness ==
    /\ Len(calls) = 3
    /\ \A i \in 1 .. 3 : calls[i].op = "add_node"
    /\ ~Root(CurStore).some
    /\ GetNode(CurStore, 2).id = 2
    /\ Len(parent_ids) = 3

====
